---- MODULE Spec2Model ----
(***************************************************************************)
(* pg_ttl_index: the cleanup pass ttl_runner() (pg_ttl_index--2.0.0.sql),  *)
(* run by several database sessions (the background worker's ticks and     *)
(* manual calls) against one rule registry (ttl_index_table) and the rule  *)
(* tables.                                                                 *)
(*                                                                         *)
(* A session runs ttl_runner() inside one transaction.  What a transaction *)
(* has deleted or written is pending until it commits; the block           *)
(* BEGIN .. EXCEPTION WHEN OTHERS around one rule is a subtransaction,     *)
(* rolled back as a whole when the handler catches an error, while the     *)
(* PL/pgSQL variables keep their values.  WHEN OTHERS does not catch       *)
(* query_canceled, which aborts the whole call.  The advisory lock is a    *)
(* session-level, re-entrant lock: only pg_advisory_unlock or the end of   *)
(* the session releases it.                                                *)
(*                                                                         *)
(* The background worker ttl_worker_main (pg_ttl_index.c) is the second    *)
(* part: its loop of ResetLatch, WaitLatch, flag tests and                 *)
(* perform_ttl_cleanup, with the signal handlers that set its flags and    *)
(* its latch.  Spec is the store with sessions calling ttl_runner() by     *)
(* hand; WorkerSpec has the worker as one session and a manual caller as   *)
(* the other.                                                              *)
(***************************************************************************)
EXTENDS Integers, Sequences, FiniteSets, TLC

\* ------------------------------------------------------------------ bounds
MaxEvents == 2      \* events of the environment in one behaviour: clock
                    \* ticks, inserts by other sessions, store errors,
                    \* cancellations, dropped tables

\* ------------------------------------------------------------------ data
Sessions == {"s1", "s2"}
RuleKeys == {1, 2}  \* (table_name, column_name), in ORDER BY order
NoSession == "none"
NULL == -1          \* last_run TIMESTAMPTZ is NULL until the first writeback

NoLimit(a, b) == b

\* LIMIT batch_size applied to the expired rows the subquery finds
Min(a, b) == IF a < b THEN a ELSE b

Row(i, t) == [id |-> i, t |-> t]

\* ttl_index_table as installed by two ttl_create_index calls at time 0;
\* present tells whether the row of the key exists, index_name is the key of
\* the index idx_ttl_<table>_<column>, 0 for NULL
InitRegistry ==
    [k \in RuleKeys |->
        [present |-> TRUE,
         active |-> TRUE,
         expire_after_seconds |-> IF k = 1 THEN 1 ELSE 0,
         batch_size |-> IF k = 1 THEN 2 ELSE 1,
         last_run |-> NULL,
         rows_deleted_last_run |-> 0,
         total_rows_deleted |-> 0,
         sum_last_run |-> 0,
         index_name |-> k,
         created_at |-> 0,
         updated_at |-> 0]]

\* the key has no row in ttl_index_table
AbsentRule ==
    [present |-> FALSE, active |-> FALSE, expire_after_seconds |-> 0,
     batch_size |-> 0, last_run |-> NULL, rows_deleted_last_run |-> 0,
     total_rows_deleted |-> 0, sum_last_run |-> 0, index_name |-> 0,
     created_at |-> NULL, updated_at |-> NULL]

\* the system catalog: the type of the column a key names and whether the
\* index idx_ttl_<table>_<column> exists
ColumnTypes == {"timestamptz", "integer"}
InitCatalog == [k \in RuleKeys |-> [data_type |-> "timestamptz", index |-> TRUE]]

\* the last call of ttl_create_index or ttl_drop_index, what it returned and
\* the registry row of its key as the call found it
NoCall == [seq |-> 0, op |-> "none", key |-> 0, expire |-> 0, batch |-> 0,
           nullarg |-> FALSE, ret |-> FALSE, old |-> AbsentRule]

\* the rule tables: three rows older than the retention, one exactly at the
\* cutoff, and for the second rule one old row and one fresh row
InitTables ==
    [k \in RuleKeys |->
        IF k = 1 THEN {Row(1, 0), Row(2, 0), Row(3, 0), Row(4, 1)}
                 ELSE {Row(5, 1), Row(6, 2)}]

NoDeletes == [k \in RuleKeys |-> {}]

NoStats == [k \in RuleKeys |->
              [last_run |-> NULL, rows_deleted_last_run |-> 0,
               total_rows_deleted |-> 0, sum_last_run |-> 0]]

NoOutcomes == [k \in RuleKeys |-> "none"]

NoRec == [key |-> 0, expire_after_seconds |-> 0, batch_size |-> 0]

\* the DECLARE section of ttl_runner and the state of the call's transaction
IdleSession ==
    [pc |-> "idle",
     recs |-> << >>,          \* rows of the FOR query not yet fetched
     rec |-> NoRec,
     table_deleted |-> 0,
     total_deleted |-> 0,
     start_time |-> 0,
     nbatch |-> 0,            \* DELETE statements executed for rec
     subDel |-> {},           \* rows deleted in the open subtransaction
     txDel |-> NoDeletes,     \* rows deleted by released subtransactions
     txWrote |-> {},          \* registry rows updated by the transaction
     txStats |-> NoStats,     \* and their new statistics
     outcomes |-> NoOutcomes, \* per rule: none, ok (UPDATE done) or err (WARNING)
     cutoff |-> 0,            \* clock_timestamp() - expire of the last DELETE
     cutoff0 |-> 0,           \* the same when the processing of rec began
     interfered |-> FALSE,    \* another session changed rec's table meanwhile
     second |-> "no",         \* the pass began after a completed, undisturbed pass
     ret |-> 0]

\* pg_ttl_index.c: the background worker's file-level variables, its latch,
\* its place in ttl_worker_main, and postgresql.conf
TTL_DEFAULT_NAPTIME_SECONDS == 60
Naptimes == {TTL_DEFAULT_NAPTIME_SECONDS, 30}

InitWorker ==
    [pc |-> "top",                    \* while (!got_SIGTERM)
     got_SIGTERM |-> FALSE,
     got_SIGHUP |-> FALSE,
     latch |-> FALSE,                 \* MyLatch is set
     wait_result |-> "none",
     ttl_naptime |-> TTL_DEFAULT_NAPTIME_SECONDS,
     ttl_worker_enabled |-> TRUE,
     conf_naptime |-> TTL_DEFAULT_NAPTIME_SECONDS,  \* pg_ttl_index.naptime in the file
     conf_enabled |-> TRUE,           \* pg_ttl_index.enabled in the file
     timeout |-> 0,                   \* seconds the last WaitLatch was called with
     recovery |-> FALSE,              \* RecoveryInProgress()
     late_shutdown |-> FALSE,         \* a timer ran out with SIGTERM already delivered
     term_key |-> 0,                  \* rule in progress when SIGTERM was delivered
     errors |-> 0]                    \* passes that ended in handle_cleanup_error

\* no worker was started for the database
NoWorker == [InitWorker EXCEPT !.pc = "none"]

\* ttl_start_worker and ttl_stop_worker: the background worker slots of the
\* postmaster and the calls in progress.  A slot is none (free), starting
\* (forked, not yet in pg_stat_activity under its application name),
\* running (pgstat_report_appname done) or exited.
MaxWorkerSlots == 2
Procs == 1..MaxWorkerSlots
IdleCall == [pc |-> "idle", op |-> "none", ret |-> "none", handle |-> 0]
NoLauncher ==
    [procs |-> [p \in Procs |-> "none"],
     term |-> [p \in Procs |-> FALSE],    \* SIGTERM sent to the process
     call |-> [s \in Sessions |-> IdleCall],
     \* the client session's application_name matches 'TTL Worker DB %'
     appname |-> [s \in Sessions |-> FALSE],
     \* the client session's backend was terminated
     killed |-> [s \in Sessions |-> FALSE]]

VARIABLES now, tables, tableExists, registry, lockOwner, lockCount, ses,
          events, quiet, wk, catalog, api, bgw

vars == <<now, tables, tableExists, registry, lockOwner, lockCount, ses,
          events, quiet, wk, catalog, api, bgw>>

Callable(s) == ses[s].pc \in {"idle", "skipped", "raised"}
InGuard(s) == ses[s].pc \in {"load", "next", "batch", "sleep", "stats", "unlock"}
InTx(s) == InGuard(s) \/ ses[s].pc = "returned"

\* ------------------------------------------------------------- the store
\* what session s has deleted from table k and not committed
PendingDel(s, k) ==
    ses[s].txDel[k] \cup (IF ses[s].rec.key = k THEN ses[s].subDel ELSE {})

\* the rows of table k that session s sees
Visible(s, k) == tables[k] \ PendingDel(s, k)

\* rows of table k that another session's open transaction has deleted:
\* a DELETE that reaches one of them waits for that transaction
LockedByOthers(s, k) ==
    UNION {PendingDel(t, k) : t \in Sessions \ {s}}

\* the registry row of k as session s reads it
ViewStats(s, k) ==
    IF k \in ses[s].txWrote THEN ses[s].txStats[k]
    ELSE [last_run |-> registry[k].last_run,
          rows_deleted_last_run |-> registry[k].rows_deleted_last_run,
          total_rows_deleted |-> registry[k].total_rows_deleted,
          sum_last_run |-> registry[k].sum_last_run]

ExpiredLe(row, expire, clock) == row.t <= clock - expire

\* WHERE %I < clock_timestamp() - INTERVAL '%s seconds'
Expired(row, expire, clock) == row.t < clock - expire

LockAlwaysGranted(s) == TRUE

\* pg_try_advisory_lock: granted when free or already held by this session
TryAdvisoryLock(s) == lockOwner \in {NoSession, s}

ExitAfterFirstBatch(batch_deleted) == TRUE

\* EXIT WHEN batch_deleted = 0
LoopExit(batch_deleted) == batch_deleted = 0

StatsAtFinishTime(old, start, n) ==
    [last_run |-> now, rows_deleted_last_run |-> old.rows_deleted_last_run + n,
     total_rows_deleted |-> old.total_rows_deleted + n,
     sum_last_run |-> old.sum_last_run + n]

StatsOverwriteTotal(old, start, n) ==
    [last_run |-> start, rows_deleted_last_run |-> n,
     total_rows_deleted |-> n, sum_last_run |-> old.sum_last_run + n]

\* UPDATE ttl_index_table SET last_run = start_time, ...
NewStats(old, start, n) ==
    [last_run |-> start, rows_deleted_last_run |-> n,
     total_rows_deleted |-> old.total_rows_deleted + n,
     sum_last_run |-> old.sum_last_run + n]

HandlerAbortsPass(rest) == << >>

\* EXCEPTION WHEN OTHERS: RAISE WARNING, and the FOR loop goes on
RecsAfterError(rest) == rest

HandlerWritesStats(s) == ses[s].txWrote \cup {ses[s].rec.key}

\* the handler leaves the registry alone
WroteAfterError(s) == ses[s].txWrote

HandlerKeepsDeletes(s) ==
    [ses[s].txDel EXCEPT ![ses[s].rec.key] = @ \cup ses[s].subDel]

\* the subtransaction's deletes are rolled back
TxDelAfterError(s) == ses[s].txDel

AllRuleKeys == RuleKeys

\* WHERE active = true
ActiveKeys == {k \in RuleKeys : registry[k].present /\ registry[k].active}

RECURSIVE DescendingRecs(_)
DescendingRecs(keys) ==
    IF keys = {} THEN << >>
    ELSE LET k == CHOOSE x \in keys : \A y \in keys : x >= y
         IN <<[key |-> k,
               expire_after_seconds |-> registry[k].expire_after_seconds,
               batch_size |-> registry[k].batch_size]>>
            \o DescendingRecs(keys \ {k})

RECURSIVE SortedRecs(_)
\* SELECT ... WHERE active = true ORDER BY table_name, column_name
SortedRecs(keys) ==
    IF keys = {} THEN << >>
    ELSE LET k == CHOOSE x \in keys : \A y \in keys : x <= y
         IN <<[key |-> k,
               expire_after_seconds |-> registry[k].expire_after_seconds,
               batch_size |-> registry[k].batch_size]>>
            \o SortedRecs(keys \ {k})

\* every pass that relied on an undisturbed store loses that footing
Disturbed(f) == [t \in Sessions |-> [f[t] EXCEPT !.second = "no"]]

\* ---------------------------------------------------------------- Init
InitStore ==
    /\ now = 2
    /\ tables = InitTables
    /\ tableExists = [k \in RuleKeys |-> TRUE]
    /\ registry = InitRegistry
    /\ lockOwner = NoSession
    /\ lockCount = 0
    /\ ses = [s \in Sessions |-> IdleSession]
    /\ events = 0
    /\ quiet = "none"
    /\ catalog = InitCatalog
    /\ api = NoCall

Init == InitStore /\ wk = NoWorker /\ bgw = NoLauncher

\* ------------------------------------------------------------- ttl_runner
\* SELECT pg_try_advisory_lock(...); IF NOT lock_acquired THEN RETURN 0;
\* start_time := clock_timestamp()
TryAcquire(s) ==
    /\ Callable(s)
    /\ IF TryAdvisoryLock(s)
       THEN /\ lockOwner' = s
            /\ lockCount' = lockCount + 1
            /\ ses' = [ses EXCEPT ![s] =
                         [IdleSession EXCEPT
                            !.pc = "load",
                            !.start_time = now,
                            !.second = IF quiet = "done" THEN "afterOk"
                                       ELSE IF quiet = "doneFail" THEN "afterFail"
                                       ELSE "no"]]
            /\ quiet' = IF quiet = "none" THEN "pass" ELSE quiet
       ELSE /\ ses' = [ses EXCEPT ![s] = [IdleSession EXCEPT !.pc = "skipped", !.ret = 0]]
            /\ UNCHANGED <<lockOwner, lockCount, quiet>>
    /\ UNCHANGED <<catalog, api, bgw, wk, now, tables, tableExists, registry, events>>

\* FOR rec IN SELECT ... FROM ttl_index_table WHERE active = true ORDER BY ...
LoadRules(s) ==
    /\ ses[s].pc = "load"
    /\ ses' = [ses EXCEPT ![s].recs = SortedRecs(ActiveKeys), ![s].pc = "next"]
    /\ UNCHANGED <<catalog, api, bgw, wk, now, tables, tableExists, registry, lockOwner, lockCount,
                   events, quiet>>

\* the next iteration of the FOR loop: table_deleted := 0; BEGIN
NextRule(s) ==
    /\ ses[s].pc = "next"
    /\ IF ses[s].recs = << >>
       THEN ses' = [ses EXCEPT ![s].pc = "unlock"]
       ELSE ses' = [ses EXCEPT ![s].rec = Head(ses[s].recs),
                               ![s].recs = Tail(ses[s].recs),
                               ![s].table_deleted = 0,
                               ![s].nbatch = 0,
                               ![s].cutoff0 =
                                   now - Head(ses[s].recs).expire_after_seconds,
                               ![s].subDel = {},
                               ![s].interfered = FALSE,
                               ![s].pc = "batch"]
    /\ UNCHANGED <<catalog, api, bgw, wk, now, tables, tableExists, registry, lockOwner, lockCount,
                   events, quiet>>

\* EXCEPTION WHEN OTHERS THEN RAISE WARNING ...: the subtransaction of the
\* rule is rolled back; table_deleted and total_deleted are PL/pgSQL
\* variables and keep their values
Handler(s) ==
    [ses EXCEPT ![s] = [@ EXCEPT
        !.subDel = {},
        !.txDel = TxDelAfterError(s),
        !.txWrote = WroteAfterError(s),
        !.outcomes = [@ EXCEPT ![ses[s].rec.key] = "err"],
        !.recs = RecsAfterError(ses[s].recs),
        !.pc = "next"]]

\* EXECUTE delete_query when the rule's table no longer exists
BatchNoTable(s) ==
    /\ ses[s].pc = "batch"
    /\ ~tableExists[ses[s].rec.key]
    /\ ses' = Handler(s)
    /\ UNCHANGED <<catalog, api, bgw, wk, now, tables, tableExists, registry, lockOwner, lockCount,
                   events, quiet>>

\* EXECUTE delete_query raises a store error that WHEN OTHERS catches
\* (deadlock_detected, lock_not_available, a trigger's exception, ...)
BatchFault(s) ==
    /\ ses[s].pc = "batch"
    /\ tableExists[ses[s].rec.key]
    /\ events < MaxEvents
    /\ events' = events + 1
    /\ ses' = Handler(s)
    /\ UNCHANGED <<catalog, api, bgw, wk, now, tables, tableExists, registry, lockOwner, lockCount,
                   quiet>>

\* the DELETE is accepted: the column can be compared with a timestamp and
\* LIMIT is not negative
DeleteQueryRuns(r) ==
    /\ catalog[r.key].data_type = "timestamptz"
    /\ r.batch_size >= 0

\* EXECUTE delete_query raises: operator does not exist (the column is not
\* temporal) or LIMIT must not be negative; WHEN OTHERS catches it
BatchRejected(s) ==
    /\ ses[s].pc = "batch"
    /\ tableExists[ses[s].rec.key]
    /\ ~DeleteQueryRuns(ses[s].rec)
    /\ ses' = Handler(s)
    /\ UNCHANGED <<catalog, api, bgw, wk, now, tables, tableExists, registry,
                   lockOwner, lockCount, events, quiet>>

\* rows of one table with the same time field are interchangeable: of such
\* rows a batch takes those with the lowest ids
Canonical(D, cand) ==
    \A x \in D : \A y \in cand : (y.t = x.t /\ y.id < x.id) => y \in D

\* EXECUTE delete_query; GET DIAGNOSTICS batch_deleted = ROW_COUNT;
\* table_deleted += batch_deleted; total_deleted += batch_deleted;
\* EXIT WHEN batch_deleted = 0.  LIMIT without ORDER BY takes any batch_size
\* of the expired rows.
Batch(s) ==
    /\ ses[s].pc = "batch"
    /\ tableExists[ses[s].rec.key]
    /\ DeleteQueryRuns(ses[s].rec)
    /\ LET r == ses[s].rec
           cand == {row \in Visible(s, r.key) :
                       Expired(row, r.expire_after_seconds, now)}
       IN \E D \in SUBSET cand :
            /\ Cardinality(D) = Min(r.batch_size, Cardinality(cand))
            /\ Canonical(D, cand)
            /\ D \cap LockedByOthers(s, r.key) = {}
            /\ ses' = [ses EXCEPT ![s] = [@ EXCEPT
                         !.subDel = @ \cup D,
                         !.table_deleted = @ + Cardinality(D),
                         !.total_deleted = @ + Cardinality(D),
                         !.nbatch = @ + 1,
                         !.cutoff = now - r.expire_after_seconds,
                         !.pc = IF LoopExit(Cardinality(D)) THEN "stats"
                                ELSE "sleep"]]
    /\ UNCHANGED <<catalog, api, bgw, wk, now, tables, tableExists, registry, lockOwner, lockCount,
                   events, quiet>>

\* PERFORM pg_sleep(0.01)
Sleep(s) ==
    /\ ses[s].pc = "sleep"
    /\ ses' = [ses EXCEPT ![s].pc = "batch"]
    /\ UNCHANGED <<catalog, api, bgw, wk, now, tables, tableExists, registry, lockOwner, lockCount,
                   events, quiet>>

RowAlwaysMatches(k) == TRUE

\* WHERE ttl_index_table.table_name = rec.table_name AND
\* ttl_index_table.column_name = rec.column_name finds a row
RowMatches(k) == registry[k].present

RowNeverLocked(s, k) == TRUE

\* no other open transaction has updated the registry row of k: an UPDATE
\* of a row waits for the transaction that holds the row's lock
RegistryRowFree(s, k) == \A t \in Sessions \ {s} : k \notin ses[t].txWrote

\* UPDATE ttl_index_table SET ... WHERE table_name = rec.table_name AND
\* column_name = rec.column_name; END of the block.  The UPDATE waits while
\* another open transaction has updated the same registry row, and it
\* updates no row when the rule is no longer in the registry.
UpdateStats(s) ==
    /\ ses[s].pc = "stats"
    /\ LET k == ses[s].rec.key
       IN /\ RegistryRowFree(s, k)
          /\ ses' = [ses EXCEPT ![s] = [@ EXCEPT
                       !.txStats = [@ EXCEPT ![k] =
                            NewStats(ViewStats(s, k), ses[s].start_time,
                                     ses[s].table_deleted)],
                       !.txWrote = IF RowMatches(k) THEN @ \cup {k} ELSE @,
                       !.txDel = [@ EXCEPT ![k] = @ \cup ses[s].subDel],
                       !.subDel = {},
                       !.outcomes = [@ EXCEPT ![k] = "ok"],
                       !.pc = "next"]]
    /\ UNCHANGED <<catalog, api, bgw, wk, now, tables, tableExists, registry, lockOwner, lockCount,
                   events, quiet>>

\* PERFORM pg_advisory_unlock(...); RETURN total_deleted
Unlock(s) ==
    /\ ses[s].pc = "unlock"
    /\ IF lockOwner = s
       THEN /\ lockCount' = lockCount - 1
            /\ lockOwner' = IF lockCount = 1 THEN NoSession ELSE s
       ELSE UNCHANGED <<lockOwner, lockCount>>
    /\ ses' = [ses EXCEPT ![s].pc = "returned",
                          ![s].ret = ses[s].total_deleted]
    /\ quiet' = IF quiet = "none" THEN "none"
                ELSE IF \E k \in RuleKeys : ses[s].outcomes[k] = "err"
                     THEN "doneFail" ELSE "done"
    /\ UNCHANGED <<catalog, api, bgw, wk, now, tables, tableExists, registry, events>>

\* what the commit of the transaction of session s does to the store
CommitEffect(s) ==
    /\ tables' = [k \in RuleKeys |-> tables[k] \ ses[s].txDel[k]]
    /\ registry' = [k \in RuleKeys |->
                      IF k \in ses[s].txWrote /\ RowMatches(k)
                      THEN [registry[k] EXCEPT
                              !.last_run = ses[s].txStats[k].last_run,
                              !.rows_deleted_last_run =
                                  ses[s].txStats[k].rows_deleted_last_run,
                              !.total_rows_deleted =
                                  ses[s].txStats[k].total_rows_deleted,
                              !.sum_last_run = ses[s].txStats[k].sum_last_run]
                      ELSE registry[k]]
    /\ ses' = [t \in Sessions |->
                 IF t = s THEN IdleSession
                 ELSE IF /\ ses[t].pc \in {"batch", "sleep", "stats"}
                         /\ ses[s].txDel[ses[t].rec.key] # {}
                      THEN [ses[t] EXCEPT !.interfered = TRUE]
                      ELSE ses[t]]

\* the statement that called ttl_runner() ends and its transaction commits
\* (autocommit in a client)
Commit(s) ==
    /\ ses[s].pc = "returned"
    /\ CommitEffect(s)
    /\ UNCHANGED <<catalog, api, bgw, wk, now, tableExists, lockOwner, lockCount, events, quiet>>

\* an error WHEN OTHERS does not catch (query_canceled: statement_timeout,
\* pg_cancel_backend) or one raised outside the per-rule block: the call
\* raises, its transaction is aborted (handle_cleanup_error in the worker),
\* pg_advisory_unlock is never reached
Cancel(s) ==
    /\ InGuard(s)
    /\ events < MaxEvents
    /\ events' = events + 1
    /\ ses' = [Disturbed(ses) EXCEPT ![s] = [IdleSession EXCEPT !.pc = "raised"]]
    /\ quiet' = "none"
    /\ UNCHANGED <<catalog, api, bgw, wk, now, tables, tableExists, registry, lockOwner, lockCount>>

\* ------------------------------------------------------------ environment
\* clock_timestamp() advances
Tick ==
    /\ events < MaxEvents
    /\ events' = events + 1
    /\ now' = now + 1
    /\ ses' = Disturbed(ses)
    /\ quiet' = "none"
    /\ UNCHANGED <<catalog, api, bgw, wk, tables, tableExists, registry, lockOwner, lockCount>>

\* another session inserts a row whose time field is the insertion time
Insert(k) ==
    /\ tableExists[k]
    /\ events < MaxEvents
    /\ events' = events + 1
    /\ tables' = [tables EXCEPT ![k] = @ \cup {Row(7 + events, now)}]
    /\ ses' = [t \in Sessions |->
                 [ses[t] EXCEPT
                    !.second = "no",
                    !.interfered = @ \/ (/\ ses[t].pc \in {"batch", "sleep", "stats"}
                                          /\ ses[t].rec.key = k)]]
    /\ quiet' = "none"
    /\ UNCHANGED <<catalog, api, bgw, wk, now, tableExists, registry, lockOwner, lockCount>>

\* another session drops a rule's table and leaves the rule registered
DropTable(k) ==
    /\ tableExists[k]
    /\ \A s \in Sessions : ~InTx(s)
    /\ events < MaxEvents
    /\ events' = events + 1
    /\ tableExists' = [tableExists EXCEPT ![k] = FALSE]
    /\ tables' = [tables EXCEPT ![k] = {}]
    /\ ses' = Disturbed(ses)
    /\ quiet' = "none"
    /\ UNCHANGED <<api, bgw, wk, now, registry, lockOwner, lockCount>>
    /\ catalog' = [catalog EXCEPT ![k].index = FALSE]

\* UPDATE ttl_index_table SET active = false WHERE ... (README, "Disable a
\* TTL rule"); it waits while a pass holds an uncommitted update of the row
Deactivate(k) ==
    /\ registry[k].active
    /\ \A s \in Sessions : k \notin ses[s].txWrote
    /\ events < MaxEvents
    /\ events' = events + 1
    /\ registry' = [registry EXCEPT ![k].active = FALSE]
    /\ ses' = Disturbed(ses)
    /\ quiet' = "none"
    /\ UNCHANGED <<catalog, api, bgw, wk, now, tables, tableExists, lockOwner, lockCount>>

OwnerKeptAfterExit(s) == lockOwner

\* the lock manager releases the session-level advisory locks of a backend
\* that exits
OwnerAfterExit(s) == IF lockOwner = s THEN NoSession ELSE lockOwner

\* the backend of the session that holds the guard terminates abnormally:
\* its transaction is aborted and its advisory locks are released
SessionExit(s) ==
    /\ lockOwner = s
    /\ events < MaxEvents
    /\ events' = events + 1
    /\ lockOwner' = OwnerAfterExit(s)
    /\ lockCount' = IF lockOwner' = NoSession THEN 0 ELSE lockCount
    /\ ses' = [Disturbed(ses) EXCEPT ![s] = [IdleSession EXCEPT !.pc = "gone"]]
    /\ quiet' = "none"
    /\ UNCHANGED <<catalog, api, bgw, wk, now, tables, tableExists, registry>>

Next ==
    \/ \E s \in Sessions : TryAcquire(s)
    \/ \E s \in Sessions : LoadRules(s)
    \/ \E s \in Sessions : NextRule(s)
    \/ \E s \in Sessions : BatchNoTable(s)
    \/ \E s \in Sessions : BatchFault(s)
    \/ \E s \in Sessions : Batch(s)
    \/ \E s \in Sessions : Sleep(s)
    \/ \E s \in Sessions : UpdateStats(s)
    \/ \E s \in Sessions : Unlock(s)
    \/ \E s \in Sessions : Commit(s)
    \/ \E s \in Sessions : Cancel(s)
    \/ Tick
    \/ \E k \in RuleKeys : Insert(k)
    \/ \E k \in RuleKeys : DropTable(k)
    \/ \E k \in RuleKeys : Deactivate(k)
    \/ \E s \in Sessions : SessionExit(s)

Spec == Init /\ [][Next]_vars

TypeOK ==
    /\ now \in 2..(2 + MaxEvents)
    /\ events \in 0..MaxEvents
    /\ lockOwner \in Sessions \cup {NoSession}
    /\ lockCount \in Nat
    /\ \A s \in Sessions : ses[s].pc \in
          {"idle", "skipped", "raised", "load", "next", "batch", "sleep",
           "stats", "unlock", "returned", "gone"}

\* ------------------------------------------------- the background worker
\* pg_ttl_index.c, ttl_worker_main: the worker is the session W; the other
\* session calls ttl_runner() by hand
W == "s1"

WorkerAlive == wk.pc \notin {"none", "exited"}

ShutdownIgnored(flag) == FALSE

\* the tests of got_SIGTERM: while (!got_SIGTERM) and
\* if (got_SIGTERM) break;
ShutdownRequested(flag) == flag

\* while (!got_SIGTERM) ... proc_exit(0)
WorkerLoopTest ==
    /\ wk.pc = "top"
    /\ wk' = [wk EXCEPT !.pc = IF ShutdownRequested(wk.got_SIGTERM)
                               THEN "exited" ELSE "reset"]
    /\ UNCHANGED <<catalog, api, bgw, now, tables, tableExists, registry, lockOwner, lockCount,
                   ses, events, quiet>>

\* ResetLatch(MyLatch); CHECK_FOR_INTERRUPTS() (nothing is pending: the
\* handlers of the worker only set its flags and the latch); WaitLatch is
\* entered with ttl_naptime seconds
WorkerResetLatch ==
    /\ wk.pc = "reset"
    /\ wk' = [wk EXCEPT !.latch = FALSE, !.timeout = wk.ttl_naptime,
                        !.pc = "wait"]
    /\ UNCHANGED <<catalog, api, bgw, now, tables, tableExists, registry, lockOwner, lockCount,
                   ses, events, quiet>>

\* WaitLatch returns because the latch is set
WaitLatchSet ==
    /\ wk.pc = "wait"
    /\ wk.latch
    /\ wk' = [wk EXCEPT !.wait_result = "WL_LATCH_SET", !.pc = "woke"]
    /\ UNCHANGED <<catalog, api, bgw, now, tables, tableExists, registry, lockOwner, lockCount,
                   ses, events, quiet>>

\* WaitLatch returns because ttl_naptime seconds have passed
WaitTimeout ==
    /\ wk.pc = "wait"
    /\ ~wk.latch
    /\ wk' = [wk EXCEPT !.wait_result = "WL_TIMEOUT", !.pc = "woke",
                        !.late_shutdown = wk.got_SIGTERM]
    /\ UNCHANGED <<catalog, api, bgw, now, tables, tableExists, registry, lockOwner, lockCount,
                   ses, events, quiet>>

\* if (got_SIGTERM) break;
WorkerCheckSigterm ==
    /\ wk.pc = "woke"
    /\ wk' = [wk EXCEPT !.pc = IF ShutdownRequested(wk.got_SIGTERM)
                               THEN "exited" ELSE "hup"]
    /\ UNCHANGED <<catalog, api, bgw, now, tables, tableExists, registry, lockOwner, lockCount,
                   ses, events, quiet>>

\* if (got_SIGHUP) { got_SIGHUP = false; ProcessConfigFile(PGC_SIGHUP); }
WorkerCheckSighup ==
    /\ wk.pc = "hup"
    /\ wk' = IF wk.got_SIGHUP
             THEN [wk EXCEPT !.got_SIGHUP = FALSE,
                             !.ttl_naptime = wk.conf_naptime,
                             !.ttl_worker_enabled = wk.conf_enabled,
                             !.pc = "decide"]
             ELSE [wk EXCEPT !.pc = "decide"]
    /\ UNCHANGED <<catalog, api, bgw, now, tables, tableExists, registry, lockOwner, lockCount,
                   ses, events, quiet>>

CleanupOnAnyWake(wait_result) == TRUE

should_perform_cleanup(wait_result) ==
    IF wait_result = "WL_TIMEOUT" THEN TRUE
    ELSE IF wait_result = "WL_LATCH_SET" THEN FALSE
    ELSE TRUE

can_perform_cleanup == wk.ttl_worker_enabled /\ ~wk.recovery

\* should_cleanup = should_perform_cleanup(wait_result);
\* if (should_cleanup && can_perform_cleanup()) perform_ttl_cleanup();
WorkerDecide ==
    /\ wk.pc = "decide"
    /\ wk' = [wk EXCEPT !.pc =
                 IF should_perform_cleanup(wk.wait_result) /\ can_perform_cleanup
                 THEN "run" ELSE "top"]
    /\ UNCHANGED <<catalog, api, bgw, now, tables, tableExists, registry, lockOwner, lockCount,
                   ses, events, quiet>>

\* perform_ttl_cleanup: StartTransactionCommand(); ...
\* SPI_exec("SELECT ttl_runner()") begins the pass in the worker's session
WorkerRunner ==
    /\ wk.pc = "run"
    /\ ses[W].pc = "idle"
    /\ TryAcquire(W)

\* pg_sleep in the worker's pass waits on MyLatch and resets it
WorkerSleep ==
    /\ wk.pc = "run"
    /\ ses[W].pc = "sleep"
    /\ ses' = [ses EXCEPT ![W].pc = "batch"]
    /\ wk' = [wk EXCEPT !.latch = FALSE]
    /\ UNCHANGED <<catalog, api, bgw, now, tables, tableExists, registry, lockOwner, lockCount,
                   events, quiet>>

\* perform_ttl_cleanup: ttl_runner() returned; SPI_finish();
\* CommitTransactionCommand()
WorkerCommit ==
    /\ wk.pc = "run"
    /\ ses[W].pc \in {"returned", "skipped"}
    /\ CommitEffect(W)
    /\ wk' = [wk EXCEPT !.pc = "top"]
    /\ UNCHANGED <<catalog, api, bgw, now, tableExists, lockOwner, lockCount, events, quiet>>

PcAfterErrorExit(pc) == "exited"

\* PG_CATCH swallows the error and the while loop goes on
PcAfterError(pc) == "top"

\* perform_ttl_cleanup: PG_CATCH(); handle_cleanup_error():
\* FlushErrorState(); AbortCurrentTransaction()
WorkerCatch ==
    /\ wk.pc = "run"
    /\ ses[W].pc = "raised"
    /\ ses' = [ses EXCEPT ![W] = IdleSession]
    /\ wk' = [wk EXCEPT !.pc = PcAfterError(wk.pc), !.errors = @ + 1]
    /\ UNCHANGED <<catalog, api, bgw, now, tables, tableExists, registry, lockOwner, lockCount,
                   events, quiet>>

\* ttl_sigterm_handler: got_SIGTERM = true; SetLatch(MyLatch)
Sigterm ==
    /\ WorkerAlive
    /\ ~wk.got_SIGTERM
    /\ events < MaxEvents
    /\ events' = events + 1
    /\ wk' = [wk EXCEPT !.got_SIGTERM = TRUE, !.latch = TRUE,
                        !.term_key = IF ses[W].pc \in {"batch", "sleep", "stats"}
                                     THEN ses[W].rec.key ELSE 0]
    /\ UNCHANGED <<catalog, api, bgw, now, tables, tableExists, registry, lockOwner, lockCount,
                   ses, quiet>>

\* postgresql.conf is changed and reloaded (pg_reload_conf);
\* ttl_sighup_handler: got_SIGHUP = true; SetLatch(MyLatch)
Sighup(naptime, enabled) ==
    /\ WorkerAlive
    /\ events < MaxEvents
    /\ events' = events + 1
    /\ wk' = [wk EXCEPT !.conf_naptime = naptime, !.conf_enabled = enabled,
                        !.got_SIGHUP = TRUE, !.latch = TRUE]
    /\ UNCHANGED <<catalog, api, bgw, now, tables, tableExists, registry, lockOwner, lockCount,
                   ses, quiet>>

\* the standby is promoted: RecoveryInProgress() becomes false
EndRecovery ==
    /\ wk.recovery
    /\ wk' = [wk EXCEPT !.recovery = FALSE]
    /\ UNCHANGED <<catalog, api, bgw, now, tables, tableExists, registry, lockOwner, lockCount,
                   ses, events, quiet>>

WorkerInit ==
    /\ InitStore
    /\ \E r \in BOOLEAN : wk = [InitWorker EXCEPT !.recovery = r]
    /\ bgw = NoLauncher

WorkerNext ==
    \/ WorkerLoopTest
    \/ WorkerResetLatch
    \/ WaitLatchSet
    \/ WaitTimeout
    \/ WorkerCheckSigterm
    \/ WorkerCheckSighup
    \/ WorkerDecide
    \/ WorkerRunner
    \/ WorkerSleep
    \/ WorkerCommit
    \/ WorkerCatch
    \/ Sigterm
    \/ \E n \in Naptimes : \E b \in BOOLEAN : Sighup(n, b)
    \/ EndRecovery
    \/ \E s \in Sessions \ {W} : TryAcquire(s)
    \/ \E s \in Sessions : LoadRules(s)
    \/ \E s \in Sessions : NextRule(s)
    \/ \E s \in Sessions : BatchFault(s)
    \/ \E s \in Sessions : Batch(s)
    \/ \E s \in Sessions \ {W} : Sleep(s)
    \/ \E s \in Sessions : UpdateStats(s)
    \/ \E s \in Sessions : Unlock(s)
    \/ \E s \in Sessions \ {W} : Commit(s)
    \/ \E s \in Sessions : Cancel(s)
    \/ Tick

WorkerSpec == WorkerInit /\ [][WorkerNext]_vars

\* ------------------------------------------------------------------ claims

\* C1: single-flight exclusion.  A session between acquiring and releasing
\* the guard is the one lock holder, so at most one session is there and
\* only it has uncommitted deletes of an open rule; a call that finds the
\* guard held by another session returns 0 in that same step, raises
\* nothing, and neither the tables nor the registry change.
C1_SingleFlight ==
    /\ [](\A s \in Sessions :
            /\ InGuard(s) => lockOwner = s
            /\ ses[s].subDel # {} => InGuard(s)
            /\ ses[s].pc = "skipped" =>
                 /\ ses[s].ret = 0
                 /\ ses[s].total_deleted = 0
                 /\ \A k \in RuleKeys : ses[s].txDel[k] = {})
    /\ [][\A s \in Sessions :
            (/\ Callable(s)
             /\ lockOwner \notin {NoSession, s}
             /\ ses'[s] # ses[s])
            => /\ ses'[s].pc = "skipped"
               /\ ses'[s].ret = 0
               /\ tables' = tables
               /\ registry' = registry
               /\ lockOwner' = lockOwner]_vars

C1_Witness ==
    \E s \in Sessions : \E t \in Sessions \ {s} :
        /\ InGuard(s)
        /\ ses[s].subDel # {}
        /\ ses[t].pc = "skipped"

\* C2: a row is deleted only by a DELETE of a pass whose rule it belongs to
\* and only if its time field is strictly less than the clock at that DELETE
\* minus the rule's expire_after_seconds; a row leaves a table only through
\* such a delete, so rows at or after the cutoff stay.
C2_OnlyExpiredDeleted ==
    [][\A k \in RuleKeys :
         /\ \A s \in Sessions :
              \A row \in PendingDel(s, k)' \ PendingDel(s, k) :
                 /\ ses'[s].rec.key = k
                 /\ row.t < now - ses'[s].rec.expire_after_seconds
         /\ tableExists'[k] =>
              \A row \in tables[k] \ tables'[k] :
                 /\ \E s \in Sessions : row \in ses[s].txDel[k]
                 /\ row.t < now - registry[k].expire_after_seconds]_vars

C2_Witness ==
    \E s \in Sessions :
        /\ ses[s].pc = "returned"
        /\ now = 2
        /\ ses[s].txDel[1] = {Row(1, 0), Row(2, 0), Row(3, 0)}
        /\ Row(4, 1) \in Visible(s, 1)
        /\ Row(6, 2) \in Visible(s, 2)

C4_FailedRuleStatsUntouched ==
    /\ [](\A s \in Sessions : \A k \in RuleKeys :
            ses[s].outcomes[k] = "err" => k \notin ses[s].txWrote)
    /\ [][\A s \in Sessions : \A k \in RuleKeys :
            (/\ ses[s].pc = "returned"
             /\ ses'[s].pc = "idle"
             /\ ses[s].outcomes[k] = "err")
            => registry'[k] = registry[k]]_vars

C4_Witness ==
    \E s \in Sessions :
        /\ ses[s].pc = "returned"
        /\ ses[s].outcomes[1] = "err"
        /\ ses[s].table_deleted > 0
        /\ registry[1].last_run # NULL

\* C5: whenever a pass that acquired the guard has ended, by return or by
\* an error that escaped the per-rule handler, the session no longer holds
\* the guard.  (Stated as claimed; the code does not release the guard when
\* the call raises.)
C5_GuardReleasedOnEveryExit ==
    \A s \in Sessions :
        (Callable(s) \/ ses[s].pc = "returned") => lockOwner # s

\* C6: after a rule was processed successfully with no other session
\* changing its table meanwhile, no row the session sees is older than the
\* cutoff of the rule's last DELETE, and rows_deleted_last_run is the number
\* of rows of the table that were older than that cutoff.
C6_AllExpiredDeletedAndCounted ==
    \A s \in Sessions :
        LET k == ses[s].rec.key
            c == ses[s].cutoff
        IN (/\ ses[s].pc = "next"
            /\ k \in RuleKeys
            /\ ses[s].outcomes[k] = "ok"
            /\ ~ses[s].interfered)
           => /\ \A row \in Visible(s, k) : row.t >= c
              /\ ViewStats(s, k).rows_deleted_last_run =
                     Cardinality({row \in tables[k] : row.t < c})

C6_Witness ==
    \E s \in Sessions :
        /\ ses[s].pc = "next"
        /\ ses[s].rec.key = 1
        /\ ses[s].outcomes[1] = "ok"
        /\ ~ses[s].interfered
        /\ ses[s].nbatch = 3
        /\ ViewStats(s, 1).rows_deleted_last_run = 3
        /\ Cardinality(Visible(s, 1)) = 1

\* C7: total_rows_deleted of every rule equals the sum of the
\* rows_deleted_last_run values written by the passes in which the rule
\* succeeded (sum_last_run records that sum), and it never decreases.
C7_TotalIsSumOfLastRuns ==
    /\ [](\A k \in RuleKeys :
            /\ registry[k].total_rows_deleted = registry[k].sum_last_run
            /\ \A s \in Sessions :
                 k \in ses[s].txWrote =>
                    ses[s].txStats[k].total_rows_deleted =
                        ses[s].txStats[k].sum_last_run)
    /\ [][\A k \in RuleKeys :
            registry'[k].total_rows_deleted >= registry[k].total_rows_deleted]_vars

C7_Witness ==
    /\ registry[1].rows_deleted_last_run > 0
    /\ registry[1].total_rows_deleted > registry[1].rows_deleted_last_run
    /\ \A s \in Sessions : ses[s].pc = "idle"

RECURSIVE SumPending(_, _)
SumPending(s, keys) ==
    IF keys = {} THEN 0
    ELSE LET k == CHOOSE x \in keys : TRUE
         IN Cardinality(ses[s].txDel[k]) + SumPending(s, keys \ {k})

\* C8: the integer a pass returns is the number of rows the pass removed
\* from the rule tables, summed over all rules.  (Stated as claimed; the
\* code also counts the batches of a rule that failed afterwards, whose
\* deletes were rolled back.)
C8_ReturnEqualsRowsRemoved ==
    \A s \in Sessions :
        ses[s].pc = "returned" => ses[s].ret = SumPending(s, RuleKeys)

\* C9 as claimed: when a rule fails after earlier batches of it succeeded,
\* the rows those batches deleted stay deleted.
C9_EarlierBatchesStayDeleted ==
    \A s \in Sessions :
        LET k == ses[s].rec.key
        IN (/\ ses[s].pc = "next"
            /\ k \in RuleKeys
            /\ ses[s].outcomes[k] = "err")
           => Cardinality(PendingDel(s, k)) = ses[s].table_deleted

\* C9 as amended: the processing of one rule is the unit of work.  When a
\* rule fails, every row its earlier batches deleted in this pass is back in
\* the table, and the deletes of the rules that succeeded earlier in the
\* pass are kept.
C9_FailedRuleRolledBack ==
    \A s \in Sessions :
        LET k == ses[s].rec.key
        IN (/\ ses[s].pc = "next"
            /\ k \in RuleKeys
            /\ ses[s].outcomes[k] = "err")
           => /\ PendingDel(s, k) = {}
              /\ \A j \in RuleKeys :
                    ses[s].outcomes[j] = "ok" =>
                       Cardinality(ses[s].txDel[j]) =
                           ses[s].txStats[j].rows_deleted_last_run

C9_Witness ==
    \E s \in Sessions :
        /\ ses[s].pc = "next"
        /\ ses[s].rec.key = 2
        /\ ses[s].outcomes[2] = "err"
        /\ ses[s].table_deleted > 0
        /\ ses[s].txDel[1] # {}

NothingDeleted(s) ==
    /\ ses[s].total_deleted = 0
    /\ ses[s].subDel = {}
    /\ \A k \in RuleKeys : ses[s].txDel[k] = {}
    /\ ses[s].pc = "returned" => ses[s].ret = 0

C11_CrashedHolderFreesGuard ==
    /\ [](\A s \in Sessions : ses[s].pc = "gone" => lockOwner # s)
    /\ [][\A s \in Sessions :
            (ses[s].pc # "gone" /\ ses'[s].pc = "gone")
            => /\ lockOwner = s
               /\ lockOwner' = NoSession
               /\ lockCount' = 0]_vars
    /\ [][\A s \in Sessions : \A t \in Sessions \ {s} :
            (/\ ses[s].pc = "gone"
             /\ Callable(t)
             /\ ses'[t] # ses[t]
             /\ ses'[t].pc # "gone")
            => /\ ses'[t].pc = "load"
               /\ lockOwner' = t]_vars

C11_Witness ==
    \E s \in Sessions : \E t \in Sessions \ {s} :
        /\ ses[s].pc = "gone"
        /\ InGuard(t)
        /\ ses[t].subDel # {}
        /\ lockOwner = t

\* C17: the batch loop of a rule is kept running only by rows that were
\* already expired when the rule's processing began, whose number is fixed,
\* so the processing ends: every batch after which the loop goes on has
\* deleted at least one such row.  (Stated as claimed; the code evaluates
\* clock_timestamp() in every DELETE, so rows that expire during the
\* processing keep the loop running as long as they keep arriving.)
C17_LoopDrivenByRowsExpiredAtStart ==
    [][\A s \in Sessions :
         (ses[s].pc = "batch" /\ ses'[s].pc = "sleep")
         => \E row \in ses'[s].subDel \ ses[s].subDel :
               row.t < ses[s].cutoff0]_vars

\* C18: the cutoff of a rule is the one computed when its processing
\* started: no batch of the rule deletes a row that was not expired then.
\* (Stated as claimed; the code computes the cutoff anew in every DELETE.)
C18_CutoffFixedAtRuleStart ==
    \A s \in Sessions :
        ses[s].pc \in {"batch", "sleep", "stats"} =>
            \A row \in ses[s].subDel : row.t < ses[s].cutoff0

Ceil(n, b) == (n + b - 1) \div b

\* the rows of the rule's table that are expired at the rule's cutoff, for a
\* rule processed with no other session touching its table and the clock
\* standing still
ExpiredCount(s) ==
    Cardinality({row \in tables[ses[s].rec.key] : row.t < ses[s].cutoff})

Undisturbed(s) ==
    /\ ses[s].pc = "next"
    /\ ses[s].rec.key \in RuleKeys
    /\ ses[s].outcomes[ses[s].rec.key] = "ok"
    /\ ~ses[s].interfered
    /\ ses[s].cutoff = ses[s].cutoff0
    /\ ExpiredCount(s) > ses[s].rec.batch_size

C20_NoGuardWithoutActiveRule ==
    [][\A s \in Sessions :
         (ses[s].pc # "load" /\ ses'[s].pc = "load")
         => \E k \in RuleKeys : registry[k].active]_vars

\* C20 as amended: a pass that finds no active rule has acquired the guard
\* like any other pass; it processes no rule, deletes no row, writes no
\* statistics and returns 0.
C20_NoActiveRuleNoEffect ==
    /\ [][\A s \in Sessions :
            (/\ ses[s].pc = "load"
             /\ ses'[s].pc = "next"
             /\ \A k \in RuleKeys : ~registry[k].active)
            => ses'[s].recs = << >>]_vars
    /\ [](\A s \in Sessions :
            (ses[s].pc \in {"next", "unlock", "returned"} /\ ses[s].rec = NoRec
             /\ ses[s].recs = << >>)
            => /\ NothingDeleted(s)
               /\ ses[s].txWrote = {}
               /\ \A k \in RuleKeys : ses[s].outcomes[k] = "none"
               /\ ses[s].pc = "next" => lockOwner = s)

C20_Witness ==
    \E s \in Sessions :
        /\ ses[s].pc = "returned"
        /\ ses[s].rec = NoRec
        /\ ses[s].ret = 0
        /\ \A k \in RuleKeys : ~registry[k].active

\* C12: the worker is inside perform_ttl_cleanup only after a wait that
\* ended by timer expiry, with ttl_worker_enabled true and the host not in
\* recovery; its session runs a pass only there; and while
\* ttl_worker_enabled is false the worker's session runs no pass and the
\* registry changes only by the commit of a pass called by hand.
C12_PassOnlyOnTimerWhenEnabled ==
    /\ [](/\ wk.pc = "run" => /\ wk.wait_result = "WL_TIMEOUT"
                              /\ wk.ttl_worker_enabled
                              /\ ~wk.recovery
          /\ ses[W].pc # "idle" => wk.pc = "run"
          /\ ~wk.ttl_worker_enabled => ses[W].pc = "idle")
    /\ [][(~wk.ttl_worker_enabled /\ registry' # registry)
          => \E s \in Sessions \ {W} :
                ses[s].pc = "returned" /\ ses'[s].pc = "idle"]_vars

C12_Witness ==
    /\ ~wk.ttl_worker_enabled
    /\ wk.pc = "top"
    /\ wk.wait_result = "WL_TIMEOUT"
    /\ ses[W].pc = "idle"
    /\ registry[1].last_run # NULL

\* C13: an error that escapes ttl_runner in the worker's pass is caught:
\* the worker's transaction is aborted (nothing of the pass reaches the
\* tables or the registry), the worker goes back to the top of its loop and
\* exits only on a shutdown request, and after an error a timer expiry with
\* the worker enabled starts a pass again.
C13_WorkerSurvivesPassError ==
    /\ [](/\ wk.pc = "exited" => wk.got_SIGTERM
          /\ ses[W].pc = "raised" => wk.pc = "run")
    /\ [][(ses[W].pc = "raised" /\ ses'[W].pc # "raised")
          => /\ wk'.pc = "top"
             /\ ses'[W] = IdleSession
             /\ tables' = tables
             /\ registry' = registry]_vars
    /\ [][(/\ wk.errors > 0
           /\ wk.pc = "decide"
           /\ wk.wait_result = "WL_TIMEOUT"
           /\ wk.ttl_worker_enabled
           /\ ~wk.recovery)
          => wk'.pc \in {"decide", "run"}]_vars

C13_Witness ==
    /\ wk.errors > 0
    /\ wk.pc = "run"
    /\ ses[W].pc = "batch"
    /\ ses[W].subDel # {}

\* C14: no timer of the worker runs out with a shutdown request already
\* delivered: a request delivered while no pass is running ends the wait.
\* (Stated as claimed; a SIGTERM delivered between the loop test and
\* ResetLatch has its latch wake-up cleared, and the worker waits the whole
\* interval.)
C14_ShutdownNeverWaitsForTimer == ~wk.late_shutdown

\* C15: when SIGTERM is delivered while the worker processes a rule, the
\* worker processes no other rule of that pass.  (Stated as claimed;
\* ttl_runner never looks at got_SIGTERM and the pass runs to its end.)
C15_ShutdownStopsAfterCurrentRule ==
    (wk.term_key # 0 /\ ses[W].pc \in {"batch", "sleep", "stats"})
        => ses[W].rec.key = wk.term_key

\* C16: every wait is entered with the interval of the most recent reload
\* request delivered before it (the default when there was none).  (Stated
\* as claimed; a SIGHUP delivered after the got_SIGHUP test, for instance
\* during a pass, is not looked at before the next WaitLatch.)
C16_WaitUsesLatestReload ==
    [][(wk.pc # "wait" /\ wk'.pc = "wait")
       => wk'.timeout = wk.conf_naptime]_vars

\* ------------------------------------- ttl_start_worker, ttl_stop_worker
\* pg_ttl_index.c: the two functions that manage the worker of the current
\* database, called from client sessions, and the worker processes as the
\* postmaster and pg_stat_activity know them
StoreFrame ==
    UNCHANGED <<now, tables, tableExists, registry, lockOwner, lockCount, ses,
                events, quiet, catalog, api>>

\* the rows of pg_stat_activity WHERE datname = current_database() AND
\* application_name LIKE 'TTL Worker DB %': a worker is listed from
\* pgstat_report_appname on, until it exits
ListedWorkers == {p \in Procs : bgw.procs[p] = "running"}

\* the worker processes that exist
LiveWorkers == {p \in Procs : bgw.procs[p] \in {"starting", "running"}}

\* pg_stat_activity has a row for every backend of the database, client
\* sessions included, and application_name is a setting every session may
\* change: the client sessions that the same WHERE clause finds
ListedClients == {s \in Sessions : bgw.appname[s] /\ ~bgw.killed[s]}

\* SELECT 1 FROM pg_stat_activity WHERE ... found a row
is_ttl_worker_running == ListedWorkers # {} \/ ListedClients # {}

StopAlwaysSucceeds(processed) == "true"

\* stopped = (ret == SPI_OK_SELECT && SPI_processed > 0)
StopResult(processed) == IF processed > 0 THEN "true" ELSE "false"

\* ttl_start_worker up to RegisterDynamicBackgroundWorker:
\* if (RecoveryInProgress()) ereport(ERROR, ...);
\* if (is_ttl_worker_running()) PG_RETURN_BOOL(true);
StartCheck(s) ==
    /\ bgw.call[s].pc = "idle"
    /\ ~bgw.killed[s]
    /\ bgw' = [bgw EXCEPT !.call[s] =
                 IF wk.recovery
                 THEN [pc |-> "idle", op |-> "start", ret |-> "error", handle |-> 0]
                 ELSE IF is_ttl_worker_running
                 THEN [pc |-> "idle", op |-> "start", ret |-> "true", handle |-> 0]
                 ELSE [pc |-> "register", op |-> "start", ret |-> "none",
                       handle |-> 0]]
    /\ UNCHANGED wk
    /\ StoreFrame

\* if (!RegisterDynamicBackgroundWorker(&worker, &handle))
\*     PG_RETURN_BOOL(false);
\* the postmaster forks the worker into a free slot
StartRegister(s) ==
    /\ bgw.call[s].pc = "register"
    /\ IF \E p \in Procs : bgw.procs[p] = "none"
       THEN LET p == CHOOSE q \in Procs :
                        /\ bgw.procs[q] = "none"
                        /\ \A r \in Procs : bgw.procs[r] = "none" => q <= r
            IN bgw' = [bgw EXCEPT !.procs[p] = "starting",
                                  !.term[p] = FALSE,
                                  !.call[s].pc = "wait",
                                  !.call[s].handle = p]
       ELSE bgw' = [bgw EXCEPT !.call[s] =
                      [pc |-> "idle", op |-> "start", ret |-> "false",
                       handle |-> 0]]
    /\ UNCHANGED wk
    /\ StoreFrame

\* switch (WaitForBackgroundWorkerStartup(handle, &pid)):
\* BGWH_STARTED once the process has a pid, BGWH_STOPPED if it is gone
StartWait(s) ==
    /\ bgw.call[s].pc = "wait"
    /\ bgw' = [bgw EXCEPT !.call[s] =
                 [pc |-> "idle", op |-> "start",
                  ret |-> IF bgw.procs[bgw.call[s].handle] \in
                                {"starting", "running"}
                          THEN "true" ELSE "false",
                  handle |-> 0]]
    /\ UNCHANGED wk
    /\ StoreFrame

\* ttl_worker_main before its loop: initialize_worker_database_connection
\* and set_worker_application_name
ProcAppname(p) ==
    /\ bgw.procs[p] = "starting"
    /\ bgw' = [bgw EXCEPT !.procs[p] = "running"]
    /\ UNCHANGED wk
    /\ StoreFrame

\* the worker finds got_SIGTERM set and leaves through proc_exit(0);
\* bgw_restart_time = BGW_NEVER_RESTART
ProcExit(p) ==
    /\ bgw.procs[p] = "running"
    /\ bgw.term[p]
    /\ bgw' = [bgw EXCEPT !.procs[p] = "exited"]
    /\ UNCHANGED wk
    /\ StoreFrame

\* the postmaster forgets the worker that exited; its slot is free again
SlotFree(p) ==
    /\ bgw.procs[p] = "exited"
    /\ \A s \in Sessions : bgw.call[s].handle # p
    /\ bgw' = [bgw EXCEPT !.procs[p] = "none", !.term[p] = FALSE]
    /\ UNCHANGED wk
    /\ StoreFrame

\* ttl_stop_worker: SELECT pg_terminate_backend(pid) FROM pg_stat_activity
\* WHERE ...; stopped = (ret == SPI_OK_SELECT && SPI_processed > 0).
\* A client backend that receives the signal ends with FATAL "terminating
\* connection due to administrator command", the caller's own included,
\* and a call it was making ends with it.
StopWorker(s) ==
    /\ bgw.call[s].pc = "idle"
    /\ ~bgw.killed[s]
    /\ bgw' = [bgw EXCEPT
                 !.term = [p \in Procs |-> bgw.term[p] \/ p \in ListedWorkers],
                 !.killed = [t \in Sessions |->
                               bgw.killed[t] \/ t \in ListedClients],
                 !.call = [t \in Sessions |->
                     IF t = s
                     THEN [pc |-> "idle", op |-> "stop",
                           ret |-> IF s \in ListedClients THEN "fatal"
                                   ELSE StopResult(Cardinality(ListedWorkers)
                                          + Cardinality(ListedClients)),
                           handle |-> 0]
                     ELSE IF t \in ListedClients /\ bgw.call[t].pc # "idle"
                     THEN [pc |-> "idle", op |-> bgw.call[t].op,
                           ret |-> "fatal", handle |-> 0]
                     ELSE bgw.call[t]]]
    /\ UNCHANGED wk
    /\ StoreFrame

\* SET application_name = ...: a client session names itself like a
\* worker (b), or takes another name
SetAppname(s, b) ==
    /\ ~bgw.killed[s]
    /\ bgw.appname[s] # b
    /\ bgw' = [bgw EXCEPT !.appname[s] = b]
    /\ UNCHANGED wk
    /\ StoreFrame

\* the client whose backend was terminated connects again, with the
\* default application_name
Reconnect(s) ==
    /\ bgw.killed[s]
    /\ bgw' = [bgw EXCEPT !.killed[s] = FALSE, !.appname[s] = FALSE]
    /\ UNCHANGED wk
    /\ StoreFrame

LauncherInit ==
    /\ InitStore
    /\ \E r \in BOOLEAN : wk = [NoWorker EXCEPT !.recovery = r]
    /\ bgw = NoLauncher

LauncherNext ==
    \/ \E s \in Sessions : StartCheck(s)
    \/ \E s \in Sessions : StartRegister(s)
    \/ \E s \in Sessions : StartWait(s)
    \/ \E s \in Sessions : StopWorker(s)
    \/ \E s \in Sessions : \E b \in BOOLEAN : SetAppname(s, b)
    \/ \E s \in Sessions : Reconnect(s)
    \/ \E p \in Procs : ProcAppname(p)
    \/ \E p \in Procs : ProcExit(p)
    \/ \E p \in Procs : SlotFree(p)
    \/ EndRecovery

LauncherSpec == LauncherInit /\ [][LauncherNext]_vars

\* C21: after any sequence or interleaving of ttl_start_worker calls from
\* sessions of one database, at most one TTL worker process exists for that
\* database
C21_AtMostOneWorker == Cardinality(LiveWorkers) <= 1

\* session s makes a call of ttl_stop_worker in this step
StopStep(s) ==
    /\ bgw' # bgw
    /\ bgw.call[s].pc = "idle"
    /\ bgw'.call[s].pc = "idle"
    /\ bgw'.call[s].op = "stop"
    /\ bgw'.procs = bgw.procs
    /\ bgw'.appname = bgw.appname
    /\ \A t \in Sessions \ {s} : bgw'.call[t] = bgw.call[t]

\* C22 as stated: ttl_stop_worker called when no worker is running is a
\* no-op that returns success (true)
C22_StopWithoutWorkerReturnsTrue ==
    [][\A s \in Sessions :
         (StopStep(s) /\ LiveWorkers = {}) =>
             /\ bgw'.call[s].ret = "true"
             /\ bgw'.term = bgw.term]_vars

\* C22: ttl_stop_worker called when no worker exists for the database and
\* no backend of the database is listed under a worker's application name
\* is a no-op that returns false: no process is signalled, no worker
\* appears
C22_StopWithoutWorkerReturnsFalse ==
    [][\A s \in Sessions :
         (/\ StopStep(s)
          /\ LiveWorkers = {}
          /\ \A t \in Sessions : bgw.appname[t] => bgw.killed[t]) =>
             /\ bgw'.call[s].ret = "false"
             /\ bgw'.term = bgw.term
             /\ bgw'.killed = bgw.killed
             /\ bgw'.procs = bgw.procs]_vars

C22_Witness ==
    \E s \in Sessions :
       /\ bgw.call[s].op = "stop"
       /\ bgw.call[s].ret = "false"
       /\ LiveWorkers = {}
       /\ \A t \in Sessions : ~bgw.appname[t]
       /\ \E p \in Procs : bgw.procs[p] = "exited"

\* ------------------------------------ ttl_create_index, ttl_drop_index
\* pg_ttl_index--2.0.0.sql: the registration functions, called by client
\* sessions as single statements, next to passes of ttl_runner()
PassSessions == {"s1"}

\* (expire_after_seconds, batch_size) arguments of ttl_create_index: INTEGER
\* parameters, passed on as they are
CreateArgs == {<<0, 1>>, <<-1, 2>>, <<1, 0>>, <<1, -1>>}

\* session s holds a lock on table k or on its registry row until it
\* commits: CREATE INDEX and DROP INDEX wait for the first, a write of the
\* registry row waits for the second
HoldsLocks(s, k) ==
    \/ k \in ses[s].txWrote
    \/ ses[s].txDel[k] # {}
    \/ (ses[s].rec.key = k /\ ses[s].pc \in {"batch", "sleep", "stats"}
        /\ ses[s].nbatch > 0)

UpsertResetsRow(old, k, e, b) ==
    [present |-> TRUE, active |-> TRUE, expire_after_seconds |-> e,
     batch_size |-> b, last_run |-> NULL, rows_deleted_last_run |-> 0,
     total_rows_deleted |-> 0, sum_last_run |-> 0, index_name |-> k,
     created_at |-> now, updated_at |-> now]

\* INSERT INTO ttl_index_table (...) VALUES (..., v_idx_name, true, NOW())
\* ON CONFLICT (table_name, column_name) DO UPDATE SET
\* expire_after_seconds = ..., batch_size = ..., active = true,
\* updated_at = NOW()
Upsert(old, k, e, b) ==
    IF old.present
    THEN [old EXCEPT !.expire_after_seconds = e, !.batch_size = b,
                     !.active = TRUE, !.updated_at = now]
    ELSE [present |-> TRUE, active |-> TRUE, expire_after_seconds |-> e,
          batch_size |-> b, last_run |-> NULL, rows_deleted_last_run |-> 0,
          total_rows_deleted |-> 0, sum_last_run |-> 0, index_name |-> k,
          created_at |-> now, updated_at |-> now]

RowKeptInactive(old) == [old EXCEPT !.active = FALSE]

\* DELETE FROM ttl_index_table WHERE table_name = ... AND column_name = ...
RowAfterDrop(old) == AbsentRule

\* ttl_create_index(table, column, e, b): CREATE INDEX IF NOT EXISTS fails
\* when the table or the column is missing, the handler then warns and
\* returns false with the block rolled back; otherwise the upsert and
\* RETURN true.  No check of the column's type or of the arguments.
CreateIndex(k, e, b) ==
    /\ events < MaxEvents
    /\ \A s \in Sessions : ~HoldsLocks(s, k)
    /\ events' = events + 1
    /\ IF tableExists[k]
       THEN /\ catalog' = [catalog EXCEPT ![k].index = TRUE]
            /\ registry' = [registry EXCEPT ![k] = Upsert(@, k, e, b)]
       ELSE UNCHANGED <<catalog, registry>>
    /\ api' = [seq |-> events + 1, op |-> "create", key |-> k, expire |-> e,
               batch |-> b, nullarg |-> FALSE, ret |-> tableExists[k],
               old |-> registry[k]]
    /\ ses' = Disturbed(ses)
    /\ quiet' = "none"
    /\ UNCHANGED <<bgw, wk, now, tables, tableExists, lockOwner, lockCount>>

IndexKeptAfterFailure(k) == [catalog EXCEPT ![k].index = TRUE]

\* EXCEPTION WHEN OTHERS in ttl_create_index: the function's block is a
\* subtransaction, so the index CREATE INDEX made is rolled back with it
CatalogAfterFailure(k) == catalog

\* ttl_create_index(table, column, NULL, b): the function is not STRICT,
\* CREATE INDEX succeeds, then the INSERT violates expire_after_seconds
\* NOT NULL; the handler warns and returns false
CreateIndexNullArg(k, b) ==
    /\ events < MaxEvents
    /\ \A s \in Sessions : ~HoldsLocks(s, k)
    /\ tableExists[k]
    /\ events' = events + 1
    /\ catalog' = CatalogAfterFailure(k)
    /\ api' = [seq |-> events + 1, op |-> "create", key |-> k, expire |-> 0,
               batch |-> b, nullarg |-> TRUE, ret |-> FALSE,
               old |-> registry[k]]
    /\ ses' = Disturbed(ses)
    /\ quiet' = "none"
    /\ UNCHANGED <<bgw, wk, now, tables, tableExists, registry, lockOwner,
                   lockCount>>

\* ttl_drop_index(table, column): SELECT index_name INTO v_idx_name;
\* DROP INDEX IF EXISTS when it is not NULL; DELETE the row; RETURN FOUND
DropIndex(k) ==
    /\ events < MaxEvents
    /\ \A s \in Sessions : ~HoldsLocks(s, k)
    /\ events' = events + 1
    /\ catalog' = [catalog EXCEPT ![k].index =
                     IF registry[k].present /\ registry[k].index_name # 0
                     THEN FALSE ELSE @]
    /\ registry' = [registry EXCEPT ![k] =
                      IF registry[k].present THEN RowAfterDrop(@) ELSE @]
    /\ api' = [seq |-> events + 1, op |-> "drop", key |-> k, expire |-> 0,
               batch |-> 0, nullarg |-> FALSE, ret |-> registry[k].present,
               old |-> registry[k]]
    /\ ses' = Disturbed(ses)
    /\ quiet' = "none"
    /\ UNCHANGED <<bgw, wk, now, tables, tableExists, lockOwner, lockCount>>

\* UPDATE ttl_index_table SET active = true WHERE ... (README, "Re-enable
\* TTL index")
Reactivate(k) ==
    /\ registry[k].present
    /\ ~registry[k].active
    /\ \A s \in Sessions : k \notin ses[s].txWrote
    /\ events < MaxEvents
    /\ events' = events + 1
    /\ registry' = [registry EXCEPT ![k].active = TRUE]
    /\ ses' = Disturbed(ses)
    /\ quiet' = "none"
    /\ UNCHANGED <<catalog, api, bgw, wk, now, tables, tableExists, lockOwner,
                   lockCount>>

\* one rule registered; the second table has no rule yet and its column is
\* a timestamp or an integer
RegistryInit ==
    /\ now = 2
    /\ tables = InitTables
    /\ tableExists = [k \in RuleKeys |-> TRUE]
    /\ registry = [InitRegistry EXCEPT ![2] = AbsentRule]
    /\ lockOwner = NoSession
    /\ lockCount = 0
    /\ ses = [s \in Sessions |-> IdleSession]
    /\ events = 0
    /\ quiet = "none"
    /\ \E ty \in ColumnTypes :
         catalog = [InitCatalog EXCEPT ![2] = [data_type |-> ty, index |-> FALSE]]
    /\ api = NoCall
    /\ wk = NoWorker
    /\ bgw = NoLauncher

RegistryNext ==
    \/ \E s \in PassSessions : TryAcquire(s)
    \/ \E s \in PassSessions : LoadRules(s)
    \/ \E s \in PassSessions : NextRule(s)
    \/ \E s \in PassSessions : BatchNoTable(s)
    \/ \E s \in PassSessions : BatchRejected(s)
    \/ \E s \in PassSessions : Batch(s)
    \/ \E s \in PassSessions : Sleep(s)
    \/ \E s \in PassSessions : UpdateStats(s)
    \/ \E s \in PassSessions : Unlock(s)
    \/ \E s \in PassSessions : Commit(s)
    \/ Tick
    \/ \E k \in RuleKeys : DropTable(k)
    \/ \E k \in RuleKeys : Deactivate(k)
    \/ \E k \in RuleKeys : Reactivate(k)
    \/ \E k \in RuleKeys : \E a \in CreateArgs : CreateIndex(k, a[1], a[2])
    \/ \E k \in RuleKeys : CreateIndexNullArg(k, 1)
    \/ \E k \in RuleKeys : DropIndex(k)

RegistrySpec == RegistryInit /\ [][RegistryNext]_vars

\* this step is a call of ttl_create_index for key k
CreateStep(k) ==
    /\ api'.seq # api.seq
    /\ api'.op = "create"
    /\ api'.key = k

\* this step is a call of ttl_drop_index for key k
DropStep(k) ==
    /\ api'.seq # api.seq
    /\ api'.op = "drop"
    /\ api'.key = k

\* the statistics and the creation time of a registry row
KeptFields(r) ==
    <<r.last_run, r.rows_deleted_last_run, r.total_rows_deleted, r.created_at>>

\* C23 as stated: every call of ttl_create_index for an existing key sets
\* expire_after_seconds and batch_size to the new arguments and active to
\* true, and leaves last_run, rows_deleted_last_run, total_rows_deleted and
\* created_at unchanged (one rule per key: the registry is a function of
\* the key)
C23_EveryCallUpdatesRule ==
    [][\A k \in RuleKeys :
         (CreateStep(k) /\ registry[k].present) =>
             /\ registry'[k].present
             /\ registry'[k].expire_after_seconds = api'.expire
             /\ registry'[k].batch_size = api'.batch
             /\ registry'[k].active
             /\ KeptFields(registry'[k]) = KeptFields(registry[k])]_vars

\* C23: a call of ttl_create_index for an existing key that returns true
\* sets expire_after_seconds and batch_size to the new arguments and active
\* to true and leaves last_run, rows_deleted_last_run, total_rows_deleted
\* and created_at unchanged; a call that returns false leaves the rule as
\* it was; rules of other keys are not touched
C23_SuccessfulCallUpdatesRule ==
    [][\A k \in RuleKeys :
         (CreateStep(k) /\ registry[k].present) =>
             /\ IF api'.ret
                THEN /\ registry'[k].present
                     /\ registry'[k].expire_after_seconds = api'.expire
                     /\ registry'[k].batch_size = api'.batch
                     /\ registry'[k].active
                     /\ KeptFields(registry'[k]) = KeptFields(registry[k])
                ELSE registry'[k] = registry[k]
             /\ \A j \in RuleKeys \ {k} : registry'[j] = registry[j]]_vars

C23_Witness ==
    /\ api.op = "create"
    /\ api.ret
    /\ api.old.present
    /\ api.old.last_run # NULL
    /\ api.old.total_rows_deleted > 0
    /\ ~api.old.active
    /\ registry[api.key].total_rows_deleted = api.old.total_rows_deleted

\* the keys of a sequence of loaded rules
KeysOf(recs) == {recs[i].key : i \in 1..Len(recs)}

\* C24: ttl_drop_index removes the rule of exactly the given key together
\* with its recorded index and returns true if the rule existed; if none
\* existed it returns false and leaves the registry unchanged; rules of
\* other keys are never affected; a pass loads, and so deletes for, only
\* rules that are in the registry when it loads them, and the rules it still
\* has to process are never more than those it loaded
C24_DropRemovesExactlyTheRule ==
    /\ [][\A k \in RuleKeys :
            DropStep(k) =>
                /\ api'.ret = registry[k].present
                /\ ~registry'[k].present
                /\ (registry[k].present /\ registry[k].index_name # 0)
                       => ~catalog'[k].index
                /\ ~registry[k].present => registry' = registry
                /\ \A j \in RuleKeys \ {k} : registry'[j] = registry[j]]_vars
    /\ [][\A s \in Sessions :
            /\ (ses[s].pc = "load" /\ ses'[s].pc = "next") =>
                   \A k \in KeysOf(ses'[s].recs) : registry[k].present
            /\ (ses[s].pc \in {"next", "batch", "sleep", "stats"}
                /\ InGuard(s)') =>
                   /\ KeysOf(ses'[s].recs) \cup {ses'[s].rec.key}
                         \subseteq KeysOf(ses[s].recs) \cup {ses[s].rec.key}
                   /\ ses'[s].subDel \ ses[s].subDel # {} =>
                         ses'[s].rec.key = ses[s].rec.key]_vars

C24_Witness ==
    /\ api.op = "drop"
    /\ api.ret
    /\ api.old.active
    /\ ~registry[api.key].present
    /\ ~catalog[api.key].index
    /\ quiet = "pass"
    /\ \E s \in Sessions :
         /\ ses[s].pc = "unlock"
         /\ ses[s].total_deleted = 0
         /\ \E row \in tables[api.key] :
              Expired(row, api.old.expire_after_seconds, now)

\* C25: after any sequence of ttl_create_index calls with arbitrary integer
\* arguments, ttl_drop_index calls and passes, every rule in the registry
\* has batch_size >= 1 and expire_after_seconds >= 0
C25_RulesHaveValidNumbers ==
    \A k \in RuleKeys :
       registry[k].present =>
           /\ registry[k].batch_size >= 1
           /\ registry[k].expire_after_seconds >= 0

\* C26: the rules a pass loads are exactly those in the registry with
\* active = true at that moment, so a rule that is inactive then is not
\* processed and a rule set back to active is processed again; a pass
\* deletes and writes statistics only for the rule it is processing; and
\* clearing the active flag leaves the rule, its configuration and its
\* statistics in the registry
C26_InactiveRulesUntouched ==
    /\ [][\A s \in Sessions :
            /\ (ses[s].pc = "load" /\ ses'[s].pc = "next") =>
                   KeysOf(ses'[s].recs) =
                       {k \in RuleKeys : registry[k].present /\ registry[k].active}
            /\ (InGuard(s) /\ InGuard(s)') =>
                   /\ ses'[s].txWrote \subseteq ses[s].txWrote \cup {ses[s].rec.key}
                   /\ \A k \in RuleKeys :
                        ses'[s].txDel[k] # ses[s].txDel[k] => k = ses[s].rec.key]_vars
    /\ [][\A k \in RuleKeys :
            (registry[k].active /\ registry'[k].present /\ ~registry'[k].active) =>
                registry'[k] = [registry[k] EXCEPT !.active = FALSE]]_vars

C26_Witness ==
    /\ events = 2
    /\ api = NoCall
    /\ now = 2
    /\ \A k \in RuleKeys : tableExists[k]
    /\ registry[1].active
    /\ quiet = "pass"
    /\ \E s \in Sessions :
         /\ ses[s].pc = "stats"
         /\ ses[s].rec.key = 1
         /\ ses[s].subDel # {}

\* C27: ttl_create_index registers a rule only for a column of a date or
\* timestamp type, so every rule in the registry, and every rule a pass has
\* to process, names a temporal column
C27_OnlyTemporalColumnsRegistered ==
    /\ \A k \in RuleKeys :
         registry[k].present => catalog[k].data_type = "timestamptz"
    /\ \A s \in Sessions :
         ses[s].pc \in {"batch", "sleep", "stats"} =>
             catalog[ses[s].rec.key].data_type = "timestamptz"

\* this step is one DELETE of session s
DeleteStep(s) ==
    /\ ses[s].pc = "batch"
    /\ ses'[s].pc \in {"sleep", "stats"}

\* each DELETE removes at most batch_size rows and its count is added to
\* the rule's count
BatchBounded ==
    [][\A s \in Sessions :
         DeleteStep(s) =>
             /\ ses[s].subDel \subseteq ses'[s].subDel
             /\ Cardinality(ses'[s].subDel \ ses[s].subDel) <= ses[s].rec.batch_size
             /\ ses'[s].table_deleted - ses[s].table_deleted =
                    Cardinality(ses'[s].subDel \ ses[s].subDel)]_vars

\* C28 as stated: every DELETE removes at most batch_size rows, and the
\* per-batch counts of a rule's processing sum to the number of rows removed
\* for that rule in the pass, however the processing ends
C28_BatchCountsSumToRemoved ==
    /\ BatchBounded
    /\ [](\A s \in Sessions :
            LET k == ses[s].rec.key
            IN (ses[s].pc \in {"next", "unlock"} /\ k \in RuleKeys)
               => ses[s].table_deleted = Cardinality(PendingDel(s, k)))

\* C28: every DELETE removes at most batch_size rows; while a rule is being
\* processed and when its processing ends without error, the per-batch
\* counts sum to the number of rows removed for the rule in the pass, which
\* is also what the writeback records; when the processing ends in an error
\* no row is removed for the rule
C28_BatchCountsSumToRemovedOnSuccess ==
    /\ BatchBounded
    /\ [](\A s \in Sessions :
            LET k == ses[s].rec.key
            IN /\ ses[s].pc \in {"batch", "sleep", "stats"} =>
                    ses[s].table_deleted = Cardinality(PendingDel(s, k))
               /\ (ses[s].pc \in {"next", "unlock"} /\ k \in RuleKeys) =>
                    IF ses[s].outcomes[k] = "ok"
                    THEN /\ ses[s].table_deleted = Cardinality(PendingDel(s, k))
                         /\ ses[s].txStats[k].rows_deleted_last_run =
                                ses[s].table_deleted
                    ELSE PendingDel(s, k) = {})

C28_Witness ==
    \E s \in Sessions :
       /\ ses[s].pc = "next"
       /\ ses[s].rec.key = 1
       /\ ses[s].outcomes[1] = "ok"
       /\ ses[s].nbatch >= 3
       /\ ses[s].table_deleted = 3
       /\ Cardinality(ses[s].txDel[1]) = 3

Ascending(recs) ==
    \A i \in 1..Len(recs) : \A j \in 1..Len(recs) :
       i < j => recs[i].key < recs[j].key

\* C30: within one pass the active rules are loaded in ascending key order,
\* each once; the pass takes them one at a time from the front, a rule it
\* takes was not processed before and every rule still to come has a higher
\* key; and whatever the pass has deleted or written belongs to the rule in
\* progress or to rules whose writeback is done, so a rule's writeback
\* precedes the first delete of the next rule
C30_AscendingOneAtATime ==
    /\ [][\A s \in Sessions :
            /\ (ses[s].pc = "load" /\ ses'[s].pc = "next") =>
                   /\ Ascending(ses'[s].recs)
                   /\ KeysOf(ses'[s].recs) =
                         {k \in RuleKeys : registry[k].present /\ registry[k].active}
            /\ (ses[s].pc = "next" /\ ses'[s].pc = "batch") =>
                   /\ ses'[s].rec = ses[s].recs[1]
                   /\ ses'[s].recs = Tail(ses[s].recs)
                   /\ ses[s].outcomes[ses'[s].rec.key] = "none"
            /\ (ses[s].pc = "next" /\ ses'[s].pc = "unlock") =>
                   ses[s].recs = << >>]_vars
    /\ [](\A s \in Sessions :
            InGuard(s) =>
               /\ Ascending(ses[s].recs)
               /\ \A k \in KeysOf(ses[s].recs) :
                     /\ k > ses[s].rec.key
                     /\ ses[s].outcomes[k] = "none"
               /\ \A k \in RuleKeys :
                     /\ ses[s].outcomes[k] # "none" => k <= ses[s].rec.key
                     /\ ses[s].outcomes[k] = "ok" <=> k \in ses[s].txWrote
                     /\ PendingDel(s, k) # {} =>
                            (k = ses[s].rec.key \/ k \in ses[s].txWrote))

C30_Witness ==
    \E s \in Sessions :
       /\ ses[s].pc = "sleep"
       /\ ses[s].rec.key = 2
       /\ ses[s].subDel # {}
       /\ ses[s].recs = << >>
       /\ 1 \in ses[s].txWrote
       /\ ses[s].txDel[1] # {}

\* C31: the last_run values written to a rule never decrease in the order
\* the writes take effect, two open transactions never both hold a written
\* statistics row of the same rule, and each commit adds the count of its
\* pass to the rule's total exactly once
C31_StatisticsWritesOrdered ==
    /\ [](\A s \in Sessions : \A t \in Sessions \ {s} :
            ses[s].txWrote \cap ses[t].txWrote = {})
    /\ [][\A k \in RuleKeys :
            /\ registry'[k].last_run >= registry[k].last_run
            /\ \A s \in Sessions :
                 (ses[s].pc = "returned" /\ ses'[s].pc = "idle"
                  /\ k \in ses[s].txWrote) =>
                     /\ registry'[k].last_run = ses[s].start_time
                     /\ registry'[k].total_rows_deleted =
                            registry[k].total_rows_deleted
                              + Cardinality(ses[s].txDel[k])
                     /\ registry'[k].rows_deleted_last_run =
                            Cardinality(ses[s].txDel[k])]_vars

\* a second pass began while the first was not yet committed; its
\* statistics UPDATE of the rule waits for the first pass's commit
C31_Witness ==
    \E s \in Sessions : \E t \in Sessions \ {s} :
       /\ ses[t].pc = "returned"
       /\ 1 \in ses[t].txWrote
       /\ ses[s].pc = "stats"
       /\ ses[s].rec.key = 1
       /\ ses[s].start_time >= ses[t].start_time
       /\ registry[1].total_rows_deleted > 0

\* C32: a call of ttl_create_index that fails (the table or the column does
\* not exist, an argument is NULL) returns false, and whenever the call
\* returns false neither a registry row nor an index has been created or
\* changed by it
C32_FailedCreateChangesNothing ==
    [][\A k \in RuleKeys :
         CreateStep(k) =>
             /\ (~tableExists[k] \/ api'.nullarg) => ~api'.ret
             /\ ~api'.ret => (registry' = registry /\ catalog' = catalog)]_vars

\* the call failed after CREATE INDEX had succeeded on a table without index
C32_Witness ==
    /\ api.op = "create"
    /\ api.nullarg
    /\ ~api.ret
    /\ ~api.old.present
    /\ ~registry[api.key].present
    /\ tableExists[api.key]
    /\ ~catalog[api.key].index

\* the configuration of a registry row
ConfigFields(r) ==
    <<r.present, r.expire_after_seconds, r.batch_size, r.active, r.created_at,
      r.updated_at, r.index_name>>

\* C35: a step of a pass (every step that is not a call of the registration
\* functions, a change of the active flag, a dropped table or a clock tick)
\* never adds or removes a registry row and never changes a rule's
\* expire_after_seconds, batch_size, active, created_at, updated_at or
\* index_name; a key without a row keeps having none, and what an open pass
\* has written are statistics of rows that exist
C35_PassWritesOnlyStatistics ==
    /\ [][events' = events =>
            \A k \in RuleKeys :
               /\ ConfigFields(registry'[k]) = ConfigFields(registry[k])
               /\ ~registry[k].present => registry'[k] = registry[k]]_vars
    /\ [](\A s \in Sessions : \A k \in ses[s].txWrote : registry[k].present)

\* a rule was dropped after the pass had loaded it: the pass deleted rows
\* for it and its statistics UPDATE found no row
C35_Witness ==
    /\ api.op = "drop"
    /\ api.ret
    /\ ~registry[api.key].present
    /\ \E s \in Sessions :
         /\ ses[s].pc = "returned"
         /\ ses[s].outcomes[api.key] = "ok"
         /\ ses[s].txDel[api.key] # {}
         /\ api.key \notin ses[s].txWrote

\* C36: deletions and statistics take effect together.  In every step, for
\* every rule whose table still exists, the rows that leave the table are as
\* many as the rule's total_rows_deleted grows by: a commit removes the rows
\* of the rules whose statistics it writes, and a failed rule, a cancelled
\* pass or a session that ends changes neither tables nor statistics
C36_DeletesAndStatisticsTogether ==
    [][\A k \in RuleKeys :
         tableExists'[k] =>
             /\ registry'[k].total_rows_deleted - registry[k].total_rows_deleted
                    = Cardinality(tables[k] \ tables'[k])
             /\ tables'[k] # tables[k] /\ tables'[k] \subseteq tables[k] =>
                    /\ registry'[k].rows_deleted_last_run =
                           Cardinality(tables[k] \ tables'[k])
                    /\ \E s \in Sessions : ses[s].pc = "returned"]_vars

\* a pass whose first rule succeeded and whose second rule failed after a
\* batch has committed: the rows of the first are gone and counted, those of
\* the second are back and not counted
C36_Witness ==
    /\ quiet = "doneFail"
    /\ \A s \in Sessions : ses[s].pc = "idle"
    /\ registry[1].total_rows_deleted = 3
    /\ Cardinality(tables[1]) = 1
    /\ registry[2].last_run = NULL
    /\ registry[2].total_rows_deleted = 0
    /\ tables[2] = InitTables[2]

\* C37: the guard is held until the effects of the pass are committed: while
\* a session has uncommitted deletions or statistics writes of a finished
\* pass, no other session holds the guard or is in a pass
C37_GuardHeldUntilCommit ==
    \A s \in Sessions : \A t \in Sessions \ {s} :
       (/\ ses[s].pc = "returned"
        /\ (ses[s].txWrote # {} \/ \E k \in RuleKeys : ses[s].txDel[k] # {}))
       => (~InGuard(t) /\ lockOwner # t)

\* --------------------------------------------- the counters of ttl_runner
\* total_deleted INTEGER, batch_deleted INTEGER, table_deleted BIGINT: a
\* pass over tables too large to enumerate, followed by its counters only.
\* The rows of these tables are not kept in the variable tables; a DELETE
\* reports a count from BulkCounts, at most batch_size.
INT4_MAX == 2147483647
MaxBulk == 2        \* DELETEs of one rule that find rows
BulkCounts == {0, 1, 1073741824, INT4_MAX}

\* int4pl of two values of 0..2^31-1: the sum, or NULL for the error
\* "integer out of range"
Int4Add(a, b) ==
    IF a > INT4_MAX - b THEN NULL ELSE a + b

\* EXECUTE delete_query; GET DIAGNOSTICS batch_deleted = ROW_COUNT;
\* table_deleted := table_deleted + batch_deleted;
\* total_deleted := total_deleted + batch_deleted; EXIT WHEN batch_deleted = 0
\* with the error of the second assignment caught by WHEN OTHERS.  After
\* the error table_deleted is not read again (it is reset at the next rule),
\* and its 64-bit value is left out there.
BulkBatch(s, n) ==
    /\ ses[s].pc = "batch"
    /\ n <= ses[s].rec.batch_size
    /\ ses[s].nbatch >= MaxBulk => n = 0
    /\ LET sum == Int4Add(ses[s].total_deleted, n)
       IN IF sum = NULL
          THEN ses' = [Handler(s) EXCEPT ![s].nbatch = @ + 1]
          ELSE ses' = [ses EXCEPT ![s] = [@ EXCEPT
                         !.table_deleted = @ + n,
                         !.total_deleted = sum,
                         !.nbatch = @ + 1,
                         !.cutoff = now - ses[s].rec.expire_after_seconds,
                         !.pc = IF LoopExit(n) THEN "stats" ELSE "sleep"]]
    /\ UNCHANGED <<catalog, api, bgw, wk, now, tables, tableExists, registry,
                   lockOwner, lockCount, events, quiet>>

\* two rules with the largest batch_size an INTEGER column can hold
OverflowInit ==
    /\ now = 2
    /\ tables = InitTables
    /\ tableExists = [k \in RuleKeys |-> TRUE]
    /\ registry = [k \in RuleKeys |->
                     [InitRegistry[k] EXCEPT !.batch_size = INT4_MAX]]
    /\ lockOwner = NoSession
    /\ lockCount = 0
    /\ ses = [s \in Sessions |-> IdleSession]
    /\ events = 0
    /\ quiet = "none"
    /\ catalog = InitCatalog
    /\ api = NoCall
    /\ wk = NoWorker
    /\ bgw = NoLauncher

\* a pass starts while the 64-bit columns total_rows_deleted are 0, which
\* keeps them below 2^31, within the integers of the checker
OverflowNext ==
    \/ \E s \in PassSessions :
          /\ \A k \in RuleKeys : registry[k].total_rows_deleted = 0
          /\ TryAcquire(s)
    \/ \E s \in PassSessions : LoadRules(s)
    \/ \E s \in PassSessions : NextRule(s)
    \/ \E s \in PassSessions : \E n \in BulkCounts : BulkBatch(s, n)
    \/ \E s \in PassSessions : Sleep(s)
    \/ \E s \in PassSessions : UpdateStats(s)
    \/ \E s \in PassSessions : Unlock(s)
    \/ \E s \in PassSessions : Commit(s)

OverflowSpec == OverflowInit /\ [][OverflowNext]_vars

\* C38: the pass-wide total is a 32-bit signed integer updated inside the
\* rule's block: it and the value the pass returns stay within 0..2^31-1;
\* a DELETE either adds its count to the total, or, when that would carry
\* the total beyond 2^31-1, makes the rule in progress fail (no statistics
\* written for it, the total as it was before) with the pass going on to
\* the rules that are left
C38_TotalNeverWraps ==
    /\ [](\A s \in Sessions :
            /\ ses[s].total_deleted \in 0..INT4_MAX
            /\ ses[s].ret \in 0..INT4_MAX)
    /\ [][\A s \in Sessions :
            (ses[s].pc = "batch" /\ ses'[s].pc # "batch") =>
               IF ses'[s].pc \in {"sleep", "stats"}
               THEN /\ ses'[s].total_deleted - ses[s].total_deleted =
                          ses'[s].table_deleted - ses[s].table_deleted
                    /\ ses'[s].total_deleted >= ses[s].total_deleted
               ELSE /\ ses'[s].pc = "next"
                    /\ ses'[s].outcomes[ses[s].rec.key] = "err"
                    /\ ses'[s].txWrote = ses[s].txWrote
                    /\ ses'[s].total_deleted = ses[s].total_deleted
                    /\ ses'[s].recs = ses[s].recs]_vars

\* the first rule overflowed the total and failed, the second was processed
\* and the pass returned what the total held
C38_Witness ==
    \E s \in Sessions :
       /\ ses[s].pc = "returned"
       /\ ses[s].outcomes[1] = "err"
       /\ ses[s].outcomes[2] = "ok"
       /\ ses[s].ret = INT4_MAX
       /\ 1 \notin ses[s].txWrote
       /\ 2 \in ses[s].txWrote

\* C39: worker identity.  ttl_stop_worker terminates only TTL background
\* worker processes (no client session's backend is ever terminated), and a
\* call of ttl_start_worker that returns true without launching a worker
\* finds a TTL background worker of the database running, whatever
\* application_name the client sessions have chosen
C39_OnlyWorkersMatched ==
    /\ [](\A t \in Sessions : ~bgw.killed[t])
    /\ [][\A s \in Sessions :
            (/\ bgw.call[s].pc = "idle"
             /\ bgw'.call[s] # bgw.call[s]
             /\ bgw'.call[s].pc = "idle"
             /\ bgw'.call[s].op = "start"
             /\ bgw'.call[s].ret = "true")
            => ListedWorkers # {}]_vars

\* ------------------------------------------- the worker under fairness
\* The worker process alone with its passes, the signals it receives and
\* the clock.  The worker is a process of its own: it takes its next step
\* whenever it has one (a wait ends when the latch is set or the interval
\* has passed).  Nothing is assumed about when signals arrive.

\* ttl_stop_worker called by a client session while the worker is listed in
\* pg_stat_activity: pg_terminate_backend sends it SIGTERM
\* (ttl_sigterm_handler: got_SIGTERM = true; SetLatch(MyLatch)) and the
\* call returns true
StopSignal(s) ==
    /\ WorkerAlive
    /\ events < MaxEvents
    /\ events' = events + 1
    /\ wk' = [wk EXCEPT !.got_SIGTERM = TRUE, !.latch = TRUE,
                        !.term_key = IF ses[W].pc \in {"batch", "sleep", "stats"}
                                     THEN ses[W].rec.key ELSE 0]
    /\ bgw' = [bgw EXCEPT !.call[s] = [pc |-> "idle", op |-> "stop",
                                       ret |-> StopResult(1), handle |-> 0]]
    /\ UNCHANGED <<catalog, api, now, tables, tableExists, registry,
                   lockOwner, lockCount, ses, quiet>>

\* SIGHUP with postgresql.conf as it was (pg_reload_conf, a reload made for
\* another setting): ttl_sighup_handler: got_SIGHUP = true;
\* SetLatch(MyLatch)
ReloadSignal ==
    /\ WorkerAlive
    /\ ~wk.got_SIGHUP
    /\ wk' = [wk EXCEPT !.got_SIGHUP = TRUE, !.latch = TRUE]
    /\ UNCHANGED <<catalog, api, bgw, now, tables, tableExists, registry,
                   lockOwner, lockCount, ses, events, quiet>>

\* the steps of the worker process
WorkerProgress ==
    \/ WorkerLoopTest
    \/ WorkerResetLatch
    \/ WaitLatchSet
    \/ WaitTimeout
    \/ WorkerCheckSigterm
    \/ WorkerCheckSighup
    \/ WorkerDecide
    \/ WorkerRunner
    \/ WorkerSleep
    \/ WorkerCommit
    \/ WorkerCatch
    \/ LoadRules(W)
    \/ NextRule(W)
    \/ Batch(W)
    \/ UpdateStats(W)
    \/ Unlock(W)

FairNext ==
    \/ WorkerProgress
    \/ BatchFault(W)
    \/ Cancel(W)
    \/ \E s \in Sessions \ {W} : StopSignal(s)
    \/ \E n \in Naptimes : \E b \in BOOLEAN : Sighup(n, b)
    \/ ReloadSignal
    \/ EndRecovery
    \/ Tick

FairWorkerSpec ==
    WorkerInit /\ [][FairNext]_vars /\ WF_vars(WorkerProgress)

C34_PassAttemptedInfinitelyOften ==
    []<>(\/ wk.pc = "run"
         \/ ~wk.ttl_worker_enabled
         \/ ~wk.conf_enabled
         \/ wk.recovery
         \/ wk.got_SIGTERM)
====
